---- MODULE Spec2Model ----
(***************************************************************************)
(* Ihmacs editing core: the text buffer (src/buff.py) and the key decoder  *)
(* of the controller (src/controller.py).                                  *)
(*                                                                         *)
(* Strings are sequences of code points: "C-f" is <<67, 45, 102>>, chr(c)  *)
(* is <<c>>.  Buffer offsets are 0-based as in the source; Slice gives the *)
(* meaning of text[i:j].                                                   *)
(***************************************************************************)
EXTENDS Integers, Sequences, FiniteSets, TLC

\* ------------------------------------------------------------------ bounds
MaxLen == 3          \* longest buffer text explored
MaxInsert == 1       \* longest single argument of insert
MaxChord == 1        \* most tokens accumulated in the keychord
MaxText == 3         \* longest text the movement commands are run on
MaxCount == 3        \* largest count, either sign, given to a movement or scroll command
MaxDisplay == 2      \* largest display_line a buffer starts with
MaxInvoked == 3      \* most commands the command loop invokes

\* characters the explored buffers are made of: "a" and "b"
Alphabet == {97, 98}
\* counts passed to delete_char: enough to clamp at either end
Counts == (0 - (MaxLen + 1))..(MaxLen + 1)
\* positions passed to set_point / set_mark: one beyond either end
Positions == (0 - 1)..(MaxLen + 1)

VARIABLES
    buff,       \* the Buffer object: _text, _point, _mark, _modified
    last,       \* the latest Buffer call: name, arguments, buffer before, return value
    prior,      \* the insert or delete_char call made just before the latest call,
                \* with the text and point it found
    keychord,   \* Controller.keychord: the tokens read so far
    key,        \* read_key's local list of raw codes
    nodelay,    \* the window's input mode: TRUE after window.nodelay(True)
    pc,         \* where read_key stands: "A" before the first getch, "B" before the second
    ihmacs,     \* the global editor state the commands take: buffers,
                \* active_buff_index, term_size, echo, end_session
    ran,        \* the latest command run: which, with what, the state before it and
                \* the state it left before the view was re-validated
    cursor,     \* the dispatcher's place in the keymap: the tokens walked from the root
    invoked     \* the commands the dispatcher has invoked, in order

vars == <<buff, last, prior, keychord, key, nodelay, pc, ihmacs, ran, cursor, invoked>>
buffVars == <<buff, last, prior>>
keyVars == <<keychord, key, nodelay, pc>>
editVars == <<ihmacs, ran>>
loopVars == <<cursor, invoked>>

\* ------------------------------------------------------- Python primitives
Min(a, b) == IF a <= b THEN a ELSE b
Max(a, b) == IF a >= b THEN a ELSE b

\* text[i:j] for a Python sequence: negative indices count from the end,
\* both are clamped to the sequence, an empty range gives the empty string
Slice(t, i, j) ==
    LET n == Len(t)
        norm(k) == IF k < 0 THEN Max(k + n, 0) ELSE Min(k, n)
    IN  SubSeq(t, norm(i) + 1, norm(j))

\* "".join(args)
RECURSIVE Join(_)
Join(args) == IF args = <<>> THEN <<>> ELSE Head(args) \o Join(Tail(args))

\* all strings over Alphabet of length at most n
Strings(n) == UNION {[1..k -> Alphabet] : k \in 0..n}

\* ------------------------------------------------------------ src/buff.py
\* Buffer.__init__
NewBuffer ==
    [text |-> <<>>, modified |-> FALSE, point |-> 0, mark |-> 0, display_line |-> 0]

\* mutant: the upper clamp is missing
normalize_pos_noupper(b, pos) == Max(0, pos)

\* Buffer._normalize_pos
normalize_pos(b, pos) == Max(0, Min(pos, Len(b.text)))

\* Buffer.set_point
set_point(b, pos) == [b EXCEPT !.point = normalize_pos(b, pos)]

\* Buffer.set_mark
set_mark(b, pos) == [b EXCEPT !.mark = normalize_pos(b, pos)]

\* mutant: a mark equal to point moves too
insert_markge(b, args) ==
    LET insert_text == Join(args)
        insert_len == Len(insert_text)
    IN  [buff |-> [b EXCEPT
                     !.text = Slice(b.text, 0, b.point) \o insert_text
                              \o Slice(b.text, b.point, Len(b.text)),
                     !.point = b.point + insert_len,
                     !.mark = IF b.mark >= b.point THEN b.mark + insert_len
                              ELSE b.mark],
         ret |-> insert_text]

\* Buffer.insert: the buffer afterwards and the returned string
insert(b, args) ==
    LET point == b.point
        mark == b.mark
        insert_text == Join(args)
        insert_len == Len(insert_text)
    IN  [buff |-> [b EXCEPT
                     !.text = Slice(b.text, 0, point) \o insert_text
                              \o Slice(b.text, point, Len(b.text)),
                     !.point = point + insert_len,
                     !.mark = IF mark > point THEN mark + insert_len ELSE mark],
         ret |-> insert_text]

\* mutant: a backward deletion leaves point where it was
delete_char_pointstays(b, chars) ==
    LET p2 == normalize_pos(b, b.point + chars)
        start == Min(b.point, p2)
        end == Max(b.point, p2)
        deleted_text == Slice(b.text, start, end)
        deleted_len == Len(deleted_text)
        text2 == Slice(b.text, 0, start) \o Slice(b.text, end, Len(b.text))
    IN  [buff |-> [b EXCEPT
                     !.text = text2,
                     !.mark = IF start <= b.mark /\ b.mark <= end THEN start
                              ELSE IF b.mark > end THEN b.mark - deleted_len
                              ELSE b.mark],
         ret |-> deleted_text]

\* mutant: a mark at the end of the deleted span is shifted, not collapsed
delete_char_markshift(b, chars) ==
    LET p2 == normalize_pos(b, b.point + chars)
        start == Min(b.point, p2)
        end == Max(b.point, p2)
        deleted_text == Slice(b.text, start, end)
        deleted_len == Len(deleted_text)
        text2 == Slice(b.text, 0, start) \o Slice(b.text, end, Len(b.text))
    IN  [buff |-> [b EXCEPT
                     !.text = text2,
                     !.point = IF chars < 0 THEN start ELSE b.point,
                     !.mark = IF start < b.mark /\ b.mark < end THEN start
                              ELSE IF b.mark > end THEN b.mark - deleted_len
                              ELSE b.mark],
         ret |-> deleted_text]

\* mutant: the deletion runs one character short
delete_char_short(b, chars) ==
    LET p2 == normalize_pos(b, b.point + chars)
        start == Min(b.point, p2)
        end == Max(start, Max(b.point, p2) - 1)
        deleted_text == Slice(b.text, start, end)
        deleted_len == Len(deleted_text)
        text2 == Slice(b.text, 0, start) \o Slice(b.text, end, Len(b.text))
    IN  [buff |-> [b EXCEPT
                     !.text = text2,
                     !.point = IF chars < 0 THEN start ELSE b.point,
                     !.mark = IF start <= b.mark /\ b.mark <= end THEN start
                              ELSE IF b.mark > end THEN b.mark - deleted_len
                              ELSE b.mark],
         ret |-> deleted_text]

\* Buffer.delete_char: the buffer afterwards and the returned string
delete_char(b, chars) ==
    LET points == <<b.point, normalize_pos(b, b.point + chars)>>
        start == Min(points[1], points[2])
        end == Max(points[1], points[2])
        deleted_text == Slice(b.text, start, end)
        deleted_len == Len(deleted_text)
        text2 == Slice(b.text, 0, start) \o Slice(b.text, end, Len(b.text))
        point2 == IF chars < 0 THEN start ELSE b.point
        mark == b.mark
    IN  [buff |-> [b EXCEPT
                     !.text = text2,
                     !.point = point2,
                     !.mark = IF start <= mark /\ mark <= end THEN start
                              ELSE IF mark > end THEN mark - deleted_len
                              ELSE mark],
         ret |-> deleted_text]

\* mutant: the mark is left where it was
delete_region_markstays(b) ==
    LET start == Min(b.point, b.mark)
        end == Max(b.point, b.mark)
    IN  [buff |-> [b EXCEPT
                     !.text = Slice(b.text, 0, start) \o Slice(b.text, end, Len(b.text)),
                     !.point = start],
         ret |-> Slice(b.text, start, end)]

\* Buffer.delete_region: the buffer afterwards and the returned string
delete_region(b) ==
    LET start == Min(b.point, b.mark)
        end == Max(b.point, b.mark)
        deleted_text == Slice(b.text, start, end)
    IN  [buff |-> [b EXCEPT
                     !.text = Slice(b.text, 0, start) \o Slice(b.text, end, Len(b.text)),
                     !.point = start,
                     !.mark = start],
         ret |-> deleted_text]

\* ----------------------------------------------------- calls on the buffer
\* the record of one call: which, with what, on which buffer, returning what
Call(op, n, s, pre, ret) == [op |-> op, n |-> n, s |-> s, pre |-> pre, ret |-> ret]
NoCall == Call("none", 0, <<>>, NewBuffer, <<>>)
\* what is kept of a call once another has followed it
Brief(call) ==
    IF call.op \in {"insert", "delete_char"}
    THEN [op |-> call.op, n |-> call.n, s |-> call.s,
          text |-> call.pre.text, point |-> call.pre.point]
    ELSE [op |-> "none", n |-> 0, s |-> <<>>, text |-> <<>>, point |-> 0]

\* the argument tuples insert is called with: one string, or two short ones
InsertArgs ==
    {<<s>> : s \in Strings(MaxInsert)}
        \cup {<<s, t>> : s \in Strings(1) \ {<<>>}, t \in Strings(1) \ {<<>>}}

SetPoint ==
    \E pos \in Positions :
        /\ buff' = set_point(buff, pos)
        /\ last' = Call("set_point", pos, <<>>, buff, <<>>)
        /\ prior' = Brief(last)
        /\ UNCHANGED <<keyVars, editVars, loopVars>>

SetMark ==
    \E pos \in Positions :
        /\ buff' = set_mark(buff, pos)
        /\ last' = Call("set_mark", pos, <<>>, buff, <<>>)
        /\ prior' = Brief(last)
        /\ UNCHANGED <<keyVars, editVars, loopVars>>

Insert ==
    \E args \in InsertArgs :
        /\ Len(buff.text) + Len(Join(args)) <= MaxLen
        /\ buff' = insert(buff, args).buff
        /\ last' = Call("insert", 0, Join(args), buff, insert(buff, args).ret)
        /\ prior' = Brief(last)
        /\ UNCHANGED <<keyVars, editVars, loopVars>>

DeleteChar ==
    \E chars \in Counts :
        /\ buff' = delete_char(buff, chars).buff
        /\ last' = Call("delete_char", chars, <<>>, buff, delete_char(buff, chars).ret)
        /\ prior' = Brief(last)
        /\ UNCHANGED <<keyVars, editVars, loopVars>>

DeleteRegion ==
    /\ buff' = delete_region(buff).buff
    /\ last' = Call("delete_region", 0, <<>>, buff, delete_region(buff).ret)
    /\ prior' = Brief(last)
    /\ UNCHANGED <<keyVars, editVars, loopVars>>

\* ------------------------------------------------------ src/controller.py
\* string literals of read_key, as code points
STR_M == <<77, 45>>          \* "M-"
STR_C == <<67, 45>>          \* "C-"
STR_ESC == <<69, 83, 67>>    \* "ESC"
STR_DEL == <<68, 69, 76>>    \* "DEL"
STR_SPACE == <<32>>          \* " "
STR_KEY == <<75, 69, 89, 95>>                             \* "KEY_"
STR_KEY_BACKSPACE == STR_KEY \o <<66, 65, 67, 75, 83, 80, 65, 67, 69>>

\* what window.getch() returns in no-delay mode when no input is waiting
NoInput == -1
\* curses.KEY_MIN, the first keypad code
KEY_MIN == 257

\* the keypad keys explored, by their curses codes:
\* DOWN UP LEFT RIGHT HOME BACKSPACE DC NPAGE PPAGE END
KeypadCodes == {258, 259, 260, 261, 262, 263, 330, 338, 339, 360}

\* curses.keyname on the keypad keys explored
keyname(ch) ==
    CASE ch = 258 -> STR_KEY \o <<68, 79, 87, 78>>             \* KEY_DOWN
      [] ch = 259 -> STR_KEY \o <<85, 80>>                     \* KEY_UP
      [] ch = 260 -> STR_KEY \o <<76, 69, 70, 84>>             \* KEY_LEFT
      [] ch = 261 -> STR_KEY \o <<82, 73, 71, 72, 84>>         \* KEY_RIGHT
      [] ch = 262 -> STR_KEY \o <<72, 79, 77, 69>>             \* KEY_HOME
      [] ch = 263 -> STR_KEY_BACKSPACE                         \* KEY_BACKSPACE
      [] ch = 330 -> STR_KEY \o <<68, 67>>                     \* KEY_DC
      [] ch = 338 -> STR_KEY \o <<78, 80, 65, 71, 69>>         \* KEY_NPAGE
      [] ch = 339 -> STR_KEY \o <<80, 80, 65, 71, 69>>         \* KEY_PPAGE
      [] ch = 360 -> STR_KEY \o <<69, 78, 68>>                 \* KEY_END

\* curses.unctrl: "^" and the letter for a control code, "^?" for 127,
\* the character itself for a printable one
unctrl(ch) ==
    IF ch < 32 THEN <<94, ch + 64>>
    ELSE IF ch = 127 THEN <<94, 63>>
    ELSE <<ch>>

\* chr(n).lower() for one code point (ASCII and Latin-1 capitals)
chr_lower(n) ==
    IF (65 <= n /\ n <= 90) \/ (192 <= n /\ n <= 222 /\ n # 215)
    THEN <<n + 32>> ELSE <<n>>

\* mutant: the letter of a control code is not lowered
classify_upper(facekey) ==
    IF facekey = 0 THEN [control |-> STR_C, facekey |-> STR_SPACE]
    ELSE IF 1 <= facekey /\ facekey <= 26
    THEN [control |-> STR_C, facekey |-> <<unctrl(facekey)[2]>>]
    ELSE IF facekey = 27 THEN [control |-> <<>>, facekey |-> STR_ESC]
    ELSE IF 28 <= facekey /\ facekey <= 31
    THEN [control |-> STR_C, facekey |-> <<unctrl(facekey)[2]>>]
    ELSE IF 32 <= facekey /\ facekey <= 126
    THEN [control |-> <<>>, facekey |-> <<facekey>>]
    ELSE IF facekey = 127 THEN [control |-> <<>>, facekey |-> STR_DEL]
    ELSE IF 128 <= facekey /\ facekey <= 255
    THEN [control |-> <<>>, facekey |-> <<facekey>>]
    ELSE IF facekey >= KEY_MIN
    THEN [control |-> <<>>,
          facekey |-> IF keyname(facekey) = STR_KEY_BACKSPACE THEN STR_DEL
                      ELSE keyname(facekey)]
    ELSE [control |-> <<>>, facekey |-> STR_ESC]

\* mutant: the final else branch leaves the key without a name
classify_nofallback(facekey) ==
    IF facekey = 0 THEN [control |-> STR_C, facekey |-> STR_SPACE]
    ELSE IF 1 <= facekey /\ facekey <= 26
    THEN [control |-> STR_C, facekey |-> chr_lower(unctrl(facekey)[2])]
    ELSE IF facekey = 27 THEN [control |-> <<>>, facekey |-> STR_ESC]
    ELSE IF 28 <= facekey /\ facekey <= 31
    THEN [control |-> STR_C, facekey |-> chr_lower(unctrl(facekey)[2])]
    ELSE IF 32 <= facekey /\ facekey <= 126
    THEN [control |-> <<>>, facekey |-> <<facekey>>]
    ELSE IF facekey = 127 THEN [control |-> <<>>, facekey |-> STR_DEL]
    ELSE IF 128 <= facekey /\ facekey <= 255
    THEN [control |-> <<>>, facekey |-> <<facekey>>]
    ELSE IF facekey >= KEY_MIN
    THEN [control |-> <<>>,
          facekey |-> IF keyname(facekey) = STR_KEY_BACKSPACE THEN STR_DEL
                      ELSE keyname(facekey)]
    ELSE [control |-> <<>>, facekey |-> <<>>]

\* read_key's if-chain on facekey: the control prefix and the key's name
classify(facekey) ==
    IF facekey = 0 THEN [control |-> STR_C, facekey |-> STR_SPACE]
    ELSE IF 1 <= facekey /\ facekey <= 26
    THEN [control |-> STR_C, facekey |-> chr_lower(unctrl(facekey)[2])]
    ELSE IF facekey = 27 THEN [control |-> <<>>, facekey |-> STR_ESC]
    ELSE IF 28 <= facekey /\ facekey <= 31
    THEN [control |-> STR_C, facekey |-> chr_lower(unctrl(facekey)[2])]
    ELSE IF 32 <= facekey /\ facekey <= 126
    THEN [control |-> <<>>, facekey |-> <<facekey>>]
    ELSE IF facekey = 127 THEN [control |-> <<>>, facekey |-> STR_DEL]
    ELSE IF 128 <= facekey /\ facekey <= 255
    THEN [control |-> <<>>, facekey |-> <<facekey>>]
    ELSE IF facekey >= KEY_MIN
    THEN [control |-> <<>>,
          facekey |-> IF keyname(facekey) = STR_KEY_BACKSPACE THEN STR_DEL
                      ELSE keyname(facekey)]
    ELSE [control |-> <<>>, facekey |-> STR_ESC]

\* mutant: the meta prefix is put before the control prefix
key_string_metafirst(k) ==
    LET meta == IF k[1] = 27 THEN STR_M ELSE <<>>
        facekey == IF k[1] = 27 THEN k[2] ELSE k[1]
    IN  meta \o classify(facekey).control \o classify(facekey).facekey

\* read_key from "if key[0] == 27" on: the string appended for the raw key
key_string(k) ==
    LET meta == IF k[1] = 27 THEN STR_M ELSE <<>>
        facekey == IF k[1] = 27 THEN k[2] ELSE k[1]
    IN  classify(facekey).control \o meta \o classify(facekey).facekey

\* the raw codes the window delivers: every byte and the keypad keys
RawCodes == (0..255) \cup KeypadCodes
\* codes no branch of read_key names: negative ones, and the one between the
\* bytes and KEY_MIN
StrayCodes == {0 - 2, 0 - 1, 256}

\* read_key up to and including its first getch; a first code other than 27
\* completes the call
read_key_first(codes) ==
    /\ pc = "A"
    /\ \E char \in codes :
        IF char = 27
        THEN /\ key' = <<char>>
             /\ nodelay' = TRUE
             /\ pc' = "B"
             /\ UNCHANGED keychord
        ELSE /\ key' = <<char>>
             /\ nodelay' = FALSE
             /\ keychord' = Append(keychord, key_string(key'))
             /\ pc' = "A"
    /\ UNCHANGED <<buffVars, editVars, loopVars>>

\* mutant: read_key returns without window.nodelay(False)
read_key_second_nodelay(codes) ==
    /\ pc = "B"
    /\ \E char \in codes :
        /\ key' = Append(key, char)
        /\ nodelay' = TRUE
        /\ keychord' = Append(keychord, key_string(key'))
        /\ pc' = "A"
    /\ UNCHANGED <<buffVars, editVars, loopVars>>

\* read_key from its second getch, made in no-delay mode, to its end
read_key_second(codes) ==
    /\ pc = "B"
    /\ \E char \in codes :
        /\ key' = Append(key, char)
        /\ nodelay' = FALSE
        /\ keychord' = Append(keychord, key_string(key'))
        /\ pc' = "A"
    /\ UNCHANGED <<buffVars, editVars, loopVars>>

\* read_key called while fewer than MaxChord tokens are pending, on any code
ReadFirst == Len(keychord) < MaxChord /\ read_key_first(RawCodes \cup StrayCodes)
ReadSecond == pc = "B" /\ read_key_second(RawCodes \cup {NoInput})

\* ------------------------------------------- what the commands work on
\* The commands of basic_editing.py take the global editor state and use
\* Buffer.column, Buffer.line, Buffer.scroll_buffer and the major mode's
\* word_delimiters_regex, none of which src/ defines; they are modelled here
\* from the written specification.

\* the Ihmacs instance after start-up with a terminal of term_lines rows
NewIhmacs(term_lines) ==
    [buffers |-> <<NewBuffer>>, active_buff_index |-> 0,
     term_size |-> <<term_lines, 80>>, echo |-> <<>>, end_session |-> FALSE]

\* the argument the commands receive: the Ihmacs instance with its keychord
IhmacsState(i, kc) ==
    [buffers |-> i.buffers, active_buff_index |-> i.active_buff_index,
     term_size |-> i.term_size, echo |-> i.echo, end_session |-> i.end_session,
     keychord |-> kc]
\* the Ihmacs instance of such an argument
Instance(st) ==
    [buffers |-> st.buffers, active_buff_index |-> st.active_buff_index,
     term_size |-> st.term_size, echo |-> st.echo, end_session |-> st.end_session]

\* ihmacs_state.active_buff
active_buff(st) == st.buffers[st.active_buff_index + 1]
\* the state once the active Buffer object has become b
set_active(st, b) == [st EXCEPT !.buffers[st.active_buff_index + 1] = b]

\* the offset at which the line holding offset pos starts
RECURSIVE line_start(_, _)
line_start(text, pos) ==
    IF pos = 0 THEN 0
    ELSE IF text[pos] = 10 THEN pos
    ELSE line_start(text, pos - 1)

\* how many newlines lie before offset pos
RECURSIVE newlines_before(_, _)
newlines_before(text, pos) ==
    IF pos = 0 THEN 0
    ELSE newlines_before(text, pos - 1) + (IF text[pos] = 10 THEN 1 ELSE 0)

\* Buffer.column: point minus the start offset of its line
column(b) == b.point - line_start(b.text, b.point)
\* Buffer.line: the index of the line point is on
line(b) == newlines_before(b.text, b.point)
\* Buffer.scroll_buffer: adjust display_line by n
scroll_buffer(b, n) == [b EXCEPT !.display_line = b.display_line + n]

\* -------------------------------------------------------------- regexes
\* A compiled regex is one of: a character class ("[..]"), a run of one
\* ("[..]+"), or "^.*$" under re.MULTILINE.
ClassRegex(chars, plus) == [kind |-> "class", chars |-> chars, plus |-> plus]
\* re.compile("\n+")
NEWLINE_REGEX == ClassRegex({10}, TRUE)
\* re.compile("^.*$", re.MULTILINE)
LINE_REGEX == [kind |-> "lines", chars |-> {}, plus |-> FALSE]
\* the word delimiters of the major mode: runs of whitespace
major_mode(b) == [word_delimiters_regex |-> ClassRegex({32, 10}, TRUE)]

\* the first offset at or after i that holds a character outside chars
RECURSIVE run_end(_, _, _)
run_end(text, chars, i) ==
    IF i < Len(text) /\ text[i + 1] \in chars THEN run_end(text, chars, i + 1) ELSE i

\* the matches of a class regex from offset i on, as <<start, end>> spans
RECURSIVE class_spans(_, _, _)
class_spans(regex, text, i) ==
    IF i >= Len(text) THEN <<>>
    ELSE IF text[i + 1] \in regex.chars
    THEN LET e == IF regex.plus THEN run_end(text, regex.chars, i) ELSE i + 1
         IN  <<<<i, e>>>> \o class_spans(regex, text, e)
    ELSE class_spans(regex, text, i + 1)

\* the matches of "^.*$": the line starting at offset i and those after it
RECURSIVE line_spans(_, _)
line_spans(text, i) ==
    LET e == run_end(text, {c \in 0..255 : c # 10}, i)
    IN  <<<<i, e>>>> \o (IF e < Len(text) THEN line_spans(text, e + 1) ELSE <<>>)

\* regex.finditer(text): the spans of the matches, in text order
finditer(regex, text) ==
    IF regex.kind = "lines" THEN line_spans(text, 0) ELSE class_spans(regex, text, 0)

\* ---------------------------------------------------- src/basic_editing.py
RECURSIVE forward_by_delimiter(_, _, _), backward_by_delimiter(_, _, _)
RECURSIVE previous_line(_, _), next_line(_, _)
RECURSIVE up_lines(_, _), down_lines(_, _)

\* [f(x) for x in seq if keep(x)] for the two comprehensions below
RECURSIVE starts_after(_, _), ends_before(_, _)
starts_after(spans, point) ==
    IF spans = <<>> THEN <<>>
    ELSE (IF Head(spans)[1] > point THEN <<Head(spans)[1]>> ELSE <<>>)
         \o starts_after(Tail(spans), point)
ends_before(spans, point) ==
    IF spans = <<>> THEN <<>>
    ELSE (IF Head(spans)[2] < point THEN <<Head(spans)[2]>> ELSE <<>>)
         \o ends_before(Tail(spans), point)

\* mutant: point is assigned without passing through set_point
forward_char_unclamped(st, num) ==
    set_active(st, [active_buff(st) EXCEPT !.point = active_buff(st).point + num])

\* forward_char
forward_char(st, num) ==
    LET b == active_buff(st)
        point == b.point
    IN  set_active(st, set_point(b, point + num))

\* backward_char
backward_char(st, num) ==
    LET b == active_buff(st)
        point == b.point
    IN  set_active(st, set_point(b, point - num))

\* point_max
point_max(st) == Len(active_buff(st).text)
\* point_min
point_min(st) == 0

\* mutant: a delimiter starting at point counts as lying after it
forward_by_delimiter_atpoint(st, delimiter_regex, num) ==
    IF num = 0 THEN st
    ELSE IF num < 0 THEN backward_by_delimiter(st, delimiter_regex, 0 - num)
    ELSE LET b == active_buff(st)
             unit_ends == starts_after(finditer(delimiter_regex, b.text), b.point - 1)
             new_point == IF num <= Len(unit_ends) THEN unit_ends[num]
                          ELSE point_max(st)
         IN  set_active(st, set_point(b, new_point))

\* forward_by_delimiter
forward_by_delimiter(st, delimiter_regex, num) ==
    IF num = 0 THEN st
    ELSE IF num < 0 THEN backward_by_delimiter(st, delimiter_regex, 0 - num)
    ELSE LET b == active_buff(st)
             text == b.text
             point == b.point
             delimiters == finditer(delimiter_regex, text)
             unit_ends == starts_after(delimiters, point)
             \* unit_ends[num-1], an IndexError meaning point_max
             new_point == IF num - 1 < Len(unit_ends) THEN unit_ends[num]
                          ELSE point_max(st)
         IN  set_active(st, set_point(b, new_point))

\* mutant: the units are counted from the first, not from the last
backward_by_delimiter_fromfirst(st, delimiter_regex, num) ==
    IF num = 0 THEN st
    ELSE IF num < 0 THEN forward_by_delimiter(st, delimiter_regex, 0 - num)
    ELSE LET b == active_buff(st)
             unit_starts == ends_before(finditer(delimiter_regex, b.text), b.point)
             new_point == IF num <= Len(unit_starts) THEN unit_starts[num]
                          ELSE point_min(st)
         IN  set_active(st, set_point(b, new_point))

\* backward_by_delimiter
backward_by_delimiter(st, delimiter_regex, num) ==
    IF num = 0 THEN st
    ELSE IF num < 0 THEN forward_by_delimiter(st, delimiter_regex, 0 - num)
    ELSE LET b == active_buff(st)
             text == b.text
             point == b.point
             delimiters == finditer(delimiter_regex, text)
             unit_starts == ends_before(delimiters, point)
             \* unit_starts[-num], an IndexError meaning point_min
             new_point == IF num <= Len(unit_starts)
                          THEN unit_starts[Len(unit_starts) - num + 1]
                          ELSE point_min(st)
         IN  set_active(st, set_point(b, new_point))

\* forward_word
forward_word(st, num) ==
    LET b == active_buff(st)
        delimiter_regex == major_mode(b).word_delimiters_regex
    IN  forward_by_delimiter(st, delimiter_regex, num)

\* backward_word
backward_word(st, num) == forward_word(st, 0 - num)

\* mutant: move_end_of_line moves on from a newline
move_end_of_line_onwards(st) == forward_by_delimiter(st, NEWLINE_REGEX, 1)

\* move_end_of_line
move_end_of_line(st) ==
    LET b == active_buff(st)
        text == b.text
        point == b.point
        \* text[point], an IndexError meaning the end of the file
        current_char == IF point < Len(text) THEN text[point + 1] ELSE 10
    IN  IF current_char = 10 THEN st
        ELSE forward_by_delimiter(st, NEWLINE_REGEX, 1)

\* move_beginning_of_line
move_beginning_of_line(st) ==
    IF column(active_buff(st)) = 0 THEN st
    ELSE backward_by_delimiter(st, NEWLINE_REGEX, 1)

\* thing_at_point_regex: the first match point lies in, or the empty string
RECURSIVE first_span_at(_, _)
first_span_at(spans, point) ==
    IF spans = <<>> THEN <<0, 0>>
    ELSE IF Head(spans)[1] <= point /\ point <= Head(spans)[2] THEN Head(spans)
    ELSE first_span_at(Tail(spans), point)
thing_at_point_regex(st, thing_regex) ==
    LET b == active_buff(st)
        unit == first_span_at(finditer(thing_regex, b.text), b.point)
    IN  Slice(b.text, unit[1], unit[2])

\* line_at_point
line_at_point(st) == thing_at_point_regex(st, LINE_REGEX)

\* the loop of previous_line: k times to the line's start and one back
up_lines(st, k) ==
    IF k = 0 THEN st
    ELSE up_lines(backward_char(move_beginning_of_line(st), 1), k - 1)

\* the loop of next_line: k times to the line's end and one forward
down_lines(st, k) ==
    IF k = 0 THEN st
    ELSE down_lines(forward_char(move_end_of_line(st), 1), k - 1)

\* mutant: the column is adjusted by the new column alone
previous_line_nocolumn(st, num) ==
    IF num = 0 THEN st
    ELSE IF num < 0 THEN next_line(st, 0 - num)
    ELSE LET moved == up_lines(st, num)
         IN  backward_char(moved, column(active_buff(moved)))

\* previous_line
previous_line(st, num) ==
    IF num = 0 THEN st
    ELSE IF num < 0 THEN next_line(st, 0 - num)
    ELSE LET original_column == column(active_buff(st))
             moved == up_lines(st, num)
             new_column == column(active_buff(moved))
             adjust_chars == Max(0, new_column - original_column)
         IN  backward_char(moved, adjust_chars)

\* next_line
next_line(st, num) ==
    IF num = 0 THEN st
    ELSE IF num < 0 THEN previous_line(st, 0 - num)
    ELSE LET original_column == column(active_buff(st))
             moved == down_lines(st, num)
             current_line == line_at_point(moved)
             current_line_len == Len(current_line)
             adjust_chars == Min(original_column, current_line_len)
         IN  forward_char(moved, adjust_chars)

\* scroll_up
scroll_up(st, num) ==
    LET b == scroll_buffer(active_buff(st), num)
        term_lines == st.term_size[1]
        view_min == b.display_line
        view_max == view_min + term_lines - 2
        current_line == line(b)
        st1 == set_active(st, b)
        st2 == IF current_line < view_min
               THEN next_line(st1, view_min - current_line) ELSE st1
    IN  IF current_line >= view_max
        THEN previous_line(st2, view_max - current_line + 1) ELSE st2

\* scroll_down
scroll_down(st, num) == scroll_up(st, 0 - num)

\* keychord[-1]
LastOf(seq) == seq[Len(seq)]

\* mutant: the character is inserted and point put back before it
self_insert_command_pointstays(st) ==
    LET b == active_buff(st)
        char == LastOf(st.keychord)
    IN  set_active(st, set_point(insert(b, <<char>>).buff, b.point))

\* self_insert_command
self_insert_command(st) ==
    LET b == active_buff(st)
        char == LastOf(st.keychord)
    IN  set_active(st, insert(b, <<char>>).buff)

\* basic_editing.insert
editing_insert(st, string) ==
    set_active(st, insert(active_buff(st), <<string>>).buff)

\* newline: num times insert "\n"
RECURSIVE newline(_, _)
newline(st, num) ==
    IF num <= 0 THEN st ELSE newline(editing_insert(st, <<10>>), num - 1)

\* basic_editing.delete_char
editing_delete_char(st, num) ==
    set_active(st, delete_char(active_buff(st), num).buff)

\* backwards_delete_char
backwards_delete_char(st, num) ==
    set_active(st, delete_char(active_buff(st), 0 - num).buff)

\* Controller.echo
echo(st, string) == [st EXCEPT !.echo = string]

\* message
message(st, string) == echo(st, string)

\* sep.join(strings)
RECURSIVE JoinWith(_, _)
JoinWith(sep, strings) ==
    IF strings = <<>> THEN <<>>
    ELSE IF Len(strings) = 1 THEN strings[1]
    ELSE strings[1] \o sep \o JoinWith(sep, Tail(strings))

\* " is undefined"
STR_IS_UNDEFINED == <<32, 105, 115, 32, 117, 110, 100, 101, 102, 105, 110, 101, 100>>

\* mutant: only the failing token is echoed
command_undefined_lasttoken(st) ==
    message(st, LastOf(st.keychord) \o STR_IS_UNDEFINED)

\* command_undefined
command_undefined(st) ==
    LET keychord_string == JoinWith(STR_SPACE, st.keychord)
        error_message == keychord_string \o STR_IS_UNDEFINED
    IN  message(st, error_message)

\* Ihmacs.create_buffer: a new buffer joins the list and becomes the active one
ihmacs_create_buffer(st) ==
    [st EXCEPT !.buffers = Append(st.buffers, NewBuffer),
               !.active_buff_index = Len(st.buffers)]

\* Ihmacs.switch_buffer
switch_buffer(st, index) == [st EXCEPT !.active_buff_index = index]

\* create_buffer
create_buffer(st) == ihmacs_create_buffer(st)

\* next_buffer
next_buffer(st) ==
    LET buffer_list == st.buffers
        current_buff_index == st.active_buff_index
        next_buff_index == IF Len(buffer_list) = current_buff_index + 1 THEN 0
                           ELSE current_buff_index + 1
    IN  switch_buffer(st, next_buff_index)

\* previous_buffer
previous_buffer(st) ==
    LET buffer_list == st.buffers
        current_buff_index == st.active_buff_index
        next_buff_index == IF current_buff_index - 1 <= 0 THEN Len(buffer_list) - 1
                           ELSE current_buff_index - 1
    IN  switch_buffer(st, next_buff_index)

\* kill_ihmacs
kill_ihmacs(st) == [st EXCEPT !.end_session = TRUE]

\* the commands, by name; func(ihmacs_state) with every other argument at
\* its default
Commands ==
    {"self_insert_command", "newline", "backwards_delete_char", "delete_char",
     "forward_char", "forward_word", "backward_char", "backward_word",
     "next_line", "previous_line", "move_beginning_of_line", "move_end_of_line",
     "scroll_up", "scroll_down", "create_buffer", "next_buffer",
     "previous_buffer", "kill_ihmacs", "command_undefined"}

call(func, st) ==
    CASE func = "self_insert_command" -> self_insert_command(st)
      [] func = "newline" -> newline(st, 1)
      [] func = "backwards_delete_char" -> backwards_delete_char(st, 1)
      [] func = "delete_char" -> editing_delete_char(st, 1)
      [] func = "forward_char" -> forward_char(st, 1)
      [] func = "forward_word" -> forward_word(st, 1)
      [] func = "backward_char" -> backward_char(st, 1)
      [] func = "backward_word" -> backward_word(st, 1)
      [] func = "next_line" -> next_line(st, 1)
      [] func = "previous_line" -> previous_line(st, 1)
      [] func = "move_beginning_of_line" -> move_beginning_of_line(st)
      [] func = "move_end_of_line" -> move_end_of_line(st)
      [] func = "scroll_up" -> scroll_up(st, 1)
      [] func = "scroll_down" -> scroll_down(st, 1)
      [] func = "create_buffer" -> create_buffer(st)
      [] func = "next_buffer" -> next_buffer(st)
      [] func = "previous_buffer" -> previous_buffer(st)
      [] func = "kill_ihmacs" -> kill_ihmacs(st)
      [] func = "command_undefined" -> command_undefined(st)

\* ------------------------------------- src/controller.py: running a command
\* mutant: a point above the view scrolls the view the wrong way
ensure_valid_point_wrongway(st) ==
    LET b == active_buff(st)
        term_lines == st.term_size[1]
        view_min == b.display_line
        view_max == view_min + term_lines - 2
        current_line == line(b)
        b1 == IF current_line < view_min
              THEN scroll_buffer(b, view_min - current_line) ELSE b
        b2 == IF current_line >= view_max
              THEN scroll_buffer(b1, current_line - view_max + 1) ELSE b1
    IN  set_active(st, b2)

\* Controller._ensure_valid_point
ensure_valid_point(st) ==
    LET b == active_buff(st)
        term_lines == st.term_size[1]
        view_min == b.display_line
        view_max == view_min + term_lines - 2
        current_line == line(b)
        b1 == IF current_line < view_min
              THEN scroll_buffer(b, current_line - view_min) ELSE b
        b2 == IF current_line >= view_max
              THEN scroll_buffer(b1, current_line - view_max + 1) ELSE b1
    IN  set_active(st, b2)

\* Controller.run_edit
run_edit(st, func) == ensure_valid_point(call(func, st))

\* ----------------------------------------------- running the commands
\* the record of one command run
\* (via: "call" for a direct call, "run_edit" for one through run_edit)
Run(via, func, num, regex, pre, mid) ==
    [via |-> via, func |-> func, num |-> num, regex |-> regex, pre |-> pre, mid |-> mid]
NoRun == Run("none", "none", 0, NEWLINE_REGEX, NewIhmacs(3), NewIhmacs(3))

\* the texts the commands are run on: "a", " " and newline
EditAlphabet == {97, 32, 10}
EditTexts == UNION {[1..k -> EditAlphabet] : k \in 0..MaxText}
EditCounts == (0 - MaxCount)..MaxCount
\* the delimiter patterns tried: "\n+", "\s+" and " "
DelimiterRegexes == {NEWLINE_REGEX, ClassRegex({32, 10}, TRUE), ClassRegex({32}, FALSE)}

\* an editor with one buffer holding the given text, point, mark and view
Editing(text, point, mark, display_line, term_lines) ==
    [NewIhmacs(term_lines) EXCEPT
        !.buffers = <<[NewBuffer EXCEPT !.text = text, !.point = point,
                                        !.mark = mark,
                                        !.display_line = display_line]>>]

\* the state the commands see
Now == IhmacsState(ihmacs, keychord)

\* a command is called once, directly, on a drawn state
Ran(func, num, regex, st) ==
    /\ ran = NoRun
    /\ ihmacs' = Instance(st)
    /\ ran' = Run("call", func, num, regex, ihmacs, Instance(st))
    /\ UNCHANGED <<buffVars, keyVars, loopVars>>

ForwardByDelimiter ==
    \E regex \in DelimiterRegexes, num \in EditCounts :
        Ran("forward_by_delimiter", num, regex, forward_by_delimiter(Now, regex, num))

BackwardByDelimiter ==
    \E regex \in DelimiterRegexes, num \in EditCounts :
        Ran("backward_by_delimiter", num, regex, backward_by_delimiter(Now, regex, num))

ForwardWord ==
    \E num \in EditCounts :
        Ran("forward_word", num, NEWLINE_REGEX, forward_word(Now, num))

BackwardWord ==
    \E num \in EditCounts :
        Ran("backward_word", num, NEWLINE_REGEX, backward_word(Now, num))

MoveEndOfLine == Ran("move_end_of_line", 0, NEWLINE_REGEX, move_end_of_line(Now))

MoveBeginningOfLine ==
    Ran("move_beginning_of_line", 0, NEWLINE_REGEX, move_beginning_of_line(Now))

NextLine ==
    \E num \in EditCounts : Ran("next_line", num, NEWLINE_REGEX, next_line(Now, num))

PreviousLine ==
    \E num \in EditCounts :
        Ran("previous_line", num, NEWLINE_REGEX, previous_line(Now, num))

\* scroll_up and scroll_down; the view is not asked to start above the
\* first line
ScrollUp ==
    \E num \in EditCounts :
        /\ active_buff(Now).display_line + num >= 0
        /\ Ran("scroll_up", num, NEWLINE_REGEX, scroll_up(Now, num))

ScrollDown ==
    \E num \in EditCounts :
        /\ active_buff(Now).display_line - num >= 0
        /\ Ran("scroll_down", num, NEWLINE_REGEX, scroll_down(Now, num))

\* Controller.run_edit called once on a drawn state with any command
RunEdit ==
    \E func \in Commands :
        /\ ran = NoRun
        /\ ihmacs' = Instance(run_edit(Now, func))
        /\ ran' = Run("run_edit", func, 1, NEWLINE_REGEX, ihmacs,
                      Instance(call(func, Now)))
        /\ UNCHANGED <<buffVars, keyVars, loopVars>>

\* ------------------------------------------------- keymap and dispatch
\* the codes of ascii_letters + digits + punctuation + " "
PrintableCodes == 32..126

\* the pairs DEFAULT_GLOBAL_KEYMAP is built from, "C-x" "C-f" bound to cxcf
KeymapPairs(cxcf) ==
    {<< <<(<<i>>)>>, "self_insert_command" >> : i \in PrintableCodes} \cup
    {<< <<STR_C \o <<106>>>>, "newline" >>,
     << <<STR_DEL>>, "backwards_delete_char" >>,
     << <<keyname(330)>>, "delete_char" >>,
     << <<STR_C \o <<100>>>>, "delete_char" >>,
     << <<STR_C \o <<102>>>>, "forward_char" >>,
     << <<keyname(261)>>, "forward_char" >>,
     << <<STR_M \o <<102>>>>, "forward_word" >>,
     << <<STR_C \o <<98>>>>, "backward_char" >>,
     << <<keyname(260)>>, "backward_char" >>,
     << <<STR_M \o <<98>>>>, "backward_word" >>,
     << <<STR_C \o <<110>>>>, "next_line" >>,
     << <<keyname(258)>>, "next_line" >>,
     << <<STR_C \o <<112>>>>, "previous_line" >>,
     << <<keyname(259)>>, "previous_line" >>,
     << <<STR_C \o <<97>>>>, "move_beginning_of_line" >>,
     << <<keyname(262)>>, "move_beginning_of_line" >>,
     << <<STR_C \o <<101>>>>, "move_end_of_line" >>,
     << <<keyname(360)>>, "move_end_of_line" >>,
     << <<STR_C \o <<118>>>>, "scroll_up" >>,
     << <<keyname(338)>>, "scroll_up" >>,
     << <<STR_M \o <<118>>>>, "scroll_down" >>,
     << <<keyname(339)>>, "scroll_down" >>,
     << <<STR_C \o <<120>>, STR_C \o <<102>>>>, cxcf >>,
     << <<STR_C \o <<120>>, <<98>>>>, "next_buffer" >>,
     << <<STR_C \o <<120>>, STR_C \o <<98>>>>, "previous_buffer" >>,
     << <<STR_C \o <<120>>, STR_C \o <<99>>>>, "kill_ihmacs" >>}

\* a trie node: a leaf bound to a command, or an interior node
Leaf(command) == [kind |-> "leaf", command |-> command]
Interior == [kind |-> "interior", command |-> "none"]
\* what a step that finds no transition gives
NoNode == [kind |-> "none", command |-> "none"]

\* tree_helpers.build_tree_from_pairs: the trie, as the function from the
\* path of each node below the root to the node
build_tree_from_pairs(pairs) ==
    LET paths == UNION {{SubSeq(p[1], 1, n) : n \in 1..Len(p[1])} : p \in pairs}
        bound(path) == {p \in pairs : p[1] = path}
    IN  [path \in paths |->
            IF bound(path) # {}
            THEN Leaf((CHOOSE p \in bound(path) : TRUE)[2])
            ELSE Interior]

\* mutant: "C-x" is bound as well as the sequences it starts
DEFAULT_GLOBAL_KEYMAP_prefixed ==
    build_tree_from_pairs(KeymapPairs("create_buffer")
                              \cup {<< <<STR_C \o <<120>>>>, "kill_ihmacs" >>})

\* mutant: "C-x" "C-f" is bound to next_buffer
DEFAULT_GLOBAL_KEYMAP_cxcf == build_tree_from_pairs(KeymapPairs("next_buffer"))

\* DEFAULT_GLOBAL_KEYMAP
DEFAULT_GLOBAL_KEYMAP == build_tree_from_pairs(KeymapPairs("create_buffer"))

\* one step of the trie walk: from the node at path cursor along token
step(tree, at, token) ==
    IF Append(at, token) \in DOMAIN tree THEN tree[Append(at, token)] ELSE NoNode

\* mutant: the dispatcher keeps the pending keychord after an outcome
IDLE_keepchord == [keychord |-> keychord, cursor |-> <<>>]

\* the dispatcher's IDLE state: nothing pending, the cursor at the root
IDLE == [keychord |-> <<>>, cursor |-> <<>>]

\* a token has been read and not yet dispatched
TokenPending == pc = "A" /\ Len(keychord) = Len(cursor) + 1
\* the node the pending token leads to
Stepped == step(DEFAULT_GLOBAL_KEYMAP, cursor, keychord[Len(keychord)])

\* the command loop invokes a command through run_edit, then goes IDLE
Invoke(func) ==
    /\ ihmacs' = Instance(run_edit(Now, func))
    /\ ran' = Run("dispatch", func, 1, NEWLINE_REGEX, Now,
                  Instance(call(func, Now)))
    /\ invoked' = Append(invoked, func)
    /\ keychord' = IDLE.keychord
    /\ cursor' = IDLE.cursor
    /\ UNCHANGED <<buffVars, key, nodelay, pc>>

\* dispatch of a token that leads to a leaf
DispatchLeaf ==
    /\ TokenPending
    /\ Stepped.kind = "leaf"
    /\ Invoke(Stepped.command)

\* dispatch of a token that leads to an interior node
DispatchInterior ==
    /\ TokenPending
    /\ Stepped.kind = "interior"
    /\ cursor' = Append(cursor, keychord[Len(keychord)])
    /\ UNCHANGED <<buffVars, keyVars, editVars, invoked>>

\* dispatch of a token with no transition
DispatchUndefined ==
    /\ TokenPending
    /\ Stepped.kind = "none"
    /\ Invoke("command_undefined")

\* the codes typed at the command loop: ^X ^F ^Z ^C a ESC, the Latin-1
\* letter 233, LEFT and NPAGE, and after ESC: nothing, f or z
LoopCodes == {24, 6, 26, 3, 97, 27, 233, 260, 338}
LoopSecondCodes == {NoInput, 102, 122}

\* the loop reads the next key once the last token is dispatched, until the
\* session ends
LoopReadFirst ==
    /\ Len(keychord) = Len(cursor)
    /\ ~ihmacs.end_session
    /\ Len(invoked) < MaxInvoked
    /\ read_key_first(LoopCodes)
LoopReadSecond == pc = "B" /\ read_key_second(LoopSecondCodes)

\* ---------------------------------------------------------- specifications
Init ==
    /\ buff = NewBuffer
    /\ last = NoCall
    /\ prior = Brief(NoCall)
    /\ keychord = <<>>
    /\ key = <<>>
    /\ nodelay = FALSE
    /\ pc = "A"
    /\ ihmacs = NewIhmacs(3)
    /\ ran = NoRun
    /\ cursor = <<>>
    /\ invoked = <<>>

\* the buffer under any sequence of calls of its methods
Next == SetPoint \/ SetMark \/ Insert \/ DeleteChar \/ DeleteRegion
Spec == Init /\ [][Next]_vars

\* the controller reading keystrokes
NextKeys == ReadFirst \/ ReadSecond
SpecKeys == Init /\ [][NextKeys]_vars

\* the movement commands, on any text with point and mark anywhere
InitMove ==
    /\ buff = NewBuffer
    /\ last = NoCall
    /\ prior = Brief(NoCall)
    /\ keychord = <<>>
    /\ key = <<>>
    /\ nodelay = FALSE
    /\ pc = "A"
    /\ \E text \in EditTexts :
         \E point \in 0..Len(text), mark \in {0, Len(text)} :
            ihmacs = Editing(text, point, mark, 0, 3)
    /\ ran = NoRun
    /\ cursor = <<>>
    /\ invoked = <<>>
NextMove ==
    \/ ForwardByDelimiter \/ BackwardByDelimiter \/ ForwardWord \/ BackwardWord
    \/ MoveEndOfLine \/ MoveBeginningOfLine \/ NextLine \/ PreviousLine
SpecMove == InitMove /\ [][NextMove]_vars

\* buffers that may lie beside the active one: a fresh one, and one whose
\* point is below its view
OtherBuffers ==
    {NewBuffer, [NewBuffer EXCEPT !.text = <<10, 10>>, !.point = 2]}

\* a command run through run_edit, or a scroll, on any text, point, view
\* and terminal height, the token "a" having been read
InitView ==
    /\ buff = NewBuffer
    /\ last = NoCall
    /\ prior = Brief(NoCall)
    /\ keychord = <<<<97>>>>
    /\ key = <<97>>
    /\ nodelay = FALSE
    /\ pc = "A"
    /\ \E text \in EditTexts, display_line \in 0..MaxDisplay, term_lines \in {3, 4} :
         \E point \in 0..Len(text) :
            LET one == Editing(text, point, 0, display_line, term_lines)
            IN  \/ ihmacs = one
                \/ \E other \in OtherBuffers :
                      \/ ihmacs = [one EXCEPT !.buffers = Append(@, other)]
                      \/ ihmacs = [one EXCEPT !.buffers = <<other>> \o @,
                                              !.active_buff_index = 1]
    /\ ran = NoRun
    /\ cursor = <<>>
    /\ invoked = <<>>
NextView == ScrollUp \/ ScrollDown \/ RunEdit
SpecView == InitView /\ [][NextView]_vars

\* the command loop: keys are read and dispatched on the default keymap,
\* from a new session
NextLoop ==
    \/ LoopReadFirst
    \/ LoopReadSecond
    \/ DispatchLeaf
    \/ DispatchInterior
    \/ DispatchUndefined
SpecLoop == Init /\ [][NextLoop]_vars

\* ------------------------------------------------------------------ claims
\* the clamp of a position to a text of length n, written out
Clamp(x, n) == IF x < 0 THEN 0 ELSE IF x > n THEN n ELSE x
\* the first n characters of t, and t without its first n characters
Prefix(t, n) == [i \in 1..n |-> t[i]]
Suffix(t, n) == [i \in 1..(Len(t) - n) |-> t[n + i]]
\* the characters of t at offsets i .. j-1
Span(t, i, j) == [k \in 1..(j - i) |-> t[i + k]]
Abs(n) == IF n < 0 THEN 0 - n ELSE n
\* a delete_char call that asked for no more than the buffer held
Unclamped(text, point, n) == 0 <= point + n /\ point + n <= Len(text)

\* C1: in every state reachable from a fresh buffer by set_point, set_mark,
\* insert, delete_char and delete_region, point and mark lie in 0..len(text).
C1_PointMarkInRange ==
    /\ 0 <= buff.point /\ buff.point <= Len(buff.text)
    /\ 0 <= buff.mark /\ buff.mark <= Len(buff.text)

\* a deletion has shortened the text below where the mark stood
C1_Witness ==
    /\ last.op = "delete_char"
    /\ last.pre.mark > Len(buff.text)
    /\ last.pre.point < last.pre.mark

\* C2: insert(s) gives text = T[:p] + s + T[p:], point = p + len(s),
\* mark = m + len(s) if m > p and m otherwise, and returns s.
C2_InsertPost ==
    last.op = "insert" =>
        LET T == last.pre.text
            p == last.pre.point
            m == last.pre.mark
            s == last.s
        IN  /\ buff.text = Prefix(T, p) \o s \o Suffix(T, p)
            /\ buff.point = p + Len(s)
            /\ buff.mark = IF m > p THEN m + Len(s) ELSE m
            /\ last.ret = s

\* a non-empty insert inside the text with the mark at point
C2_Witness ==
    /\ last.op = "insert"
    /\ Len(last.s) > 0
    /\ last.pre.mark = last.pre.point
    /\ 0 < last.pre.point /\ last.pre.point < Len(last.pre.text)

\* C3: delete_char(n) removes and returns text[start:end], start and end the
\* lesser and greater of point and clamp(point + n); point becomes start when
\* n < 0 and stays otherwise; mark becomes start if start <= mark <= end,
\* mark - (end - start) if mark > end, and stays otherwise.
C3_DeleteCharPost ==
    last.op = "delete_char" =>
        LET T == last.pre.text
            p == last.pre.point
            m == last.pre.mark
            n == last.n
            q == Clamp(p + n, Len(T))
            start == IF p <= q THEN p ELSE q
            end == IF p <= q THEN q ELSE p
        IN  /\ buff.text = Prefix(T, start) \o Suffix(T, end)
            /\ last.ret = Span(T, start, end)
            /\ buff.point = IF n < 0 THEN start ELSE p
            /\ buff.mark = IF start <= m /\ m <= end THEN start
                           ELSE IF m > end THEN m - (end - start)
                           ELSE m

\* a backward deletion of at least one character ending exactly at the mark
C3_Witness ==
    /\ last.op = "delete_char"
    /\ last.n < 0
    /\ Len(last.ret) > 0
    /\ last.pre.mark = last.pre.point

\* C4: delete_region() removes and returns text[min(point,mark):max(point,mark)]
\* and leaves point = mark = min(original point, original mark).
C4_DeleteRegionPost ==
    last.op = "delete_region" =>
        LET T == last.pre.text
            p == last.pre.point
            m == last.pre.mark
            start == IF p <= m THEN p ELSE m
            end == IF p <= m THEN m ELSE p
        IN  /\ buff.text = Prefix(T, start) \o Suffix(T, end)
            /\ last.ret = Span(T, start, end)
            /\ buff.point = start
            /\ buff.mark = start

\* a non-empty region with the mark after point has been deleted
C4_Witness ==
    /\ last.op = "delete_region"
    /\ last.pre.point < last.pre.mark

\* C5: insert(s), s non-empty, immediately followed by delete_char(-len(s))
\* restores the original text and the original point.
C5_InsertDeleteRoundTrip ==
    (/\ prior.op = "insert"
     /\ Len(prior.s) > 0
     /\ last.op = "delete_char"
     /\ last.n = 0 - Len(prior.s))
        => /\ buff.text = prior.text
           /\ buff.point = prior.point

\* the round trip has been made inside a non-empty text
C5_Witness ==
    /\ prior.op = "insert"
    /\ Len(prior.s) > 0
    /\ last.op = "delete_char"
    /\ last.n = 0 - Len(prior.s)
    /\ 0 < prior.point /\ prior.point < Len(prior.text)

\* delete_char(n) immediately followed by delete_char(-n), neither clamped
C6_Case ==
    /\ prior.op = "delete_char"
    /\ last.op = "delete_char"
    /\ last.n = 0 - prior.n
    /\ Unclamped(prior.text, prior.point, prior.n)
    /\ Unclamped(last.pre.text, last.pre.point, last.n)

\* C6 as stated: delete_char(n) followed by delete_char(-n) at the resulting
\* point, neither clamped, restores the original text.
C6_Original == C6_Case => buff.text = prior.text

\* C6 as amended: delete_char(n) followed by delete_char(-n), neither
\* clamped, leaves T[:p-|n|] + T[p+|n|:], the text without the |n| characters
\* on either side of the original point; that is the original text only
\* when n = 0.
C6_DeleteBothSides ==
    C6_Case =>
        LET T == prior.text
            p == prior.point
            k == Abs(prior.n)
        IN  /\ buff.text = Prefix(T, p - k) \o Suffix(T, p + k)
            /\ (buff.text = T) <=> (prior.n = 0)

\* both deletions have removed a character
C6_Witness == C6_Case /\ prior.n # 0

\* C7: after any call of insert, delete_char or delete_region the buffer's
\* modified flag is true.
C7_ModifiedSet ==
    last.op \in {"insert", "delete_char", "delete_region"} => buff.modified = TRUE

\* the token read_key appended last
LastToken == keychord[Len(keychord)]
\* read_key has returned after reading one raw code
PlainKeyRead == pc = "A" /\ Len(key) = 1 /\ Len(keychord) > 0
\* read_key has returned after reading 27 and polling for a second code
MetaKeyRead == pc = "A" /\ Len(key) = 2 /\ Len(keychord) > 0

\* C8: a first raw code c in 1..26 appends "C-" and the c-th lowercase letter
\* (6 gives "C-f"), code 0 appends "C- ", code 127 appends "DEL".
C8_ControlTokens ==
    PlainKeyRead =>
        /\ (1 <= key[1] /\ key[1] <= 26) => LastToken = <<67, 45, 96 + key[1]>>
        /\ key[1] = 0 => LastToken = <<67, 45, 32>>
        /\ key[1] = 127 => LastToken = <<68, 69, 76>>

\* raw code 6 has been read and "C-f" appended
C8_Witness == PlainKeyRead /\ key[1] = 6 /\ LastToken = <<67, 45, 102>>

\* the token a code alone classifies to under the classification table
ClassifiedToken(c) == classify(c).control \o classify(c).facekey

\* C9 as stated: after 27 and an available second code c the token is "M-"
\* followed by the token c alone classifies to.
C9_Original ==
    (MetaKeyRead /\ key[2] # NoInput) =>
        LastToken = <<77, 45>> \o ClassifiedToken(key[2])

\* C9 as amended: after 27 and an available second code c the token is the
\* one c alone classifies to with "M-" put after its "C-" prefix, if it has
\* one: "M-" + token for 27 (M-ESC), 32..255 and the keypad keys ([27, 102]
\* gives "M-f"), "C-M-" + key for the control codes 0..26 and 28..31
\* ([27, 6] gives "C-M-f").
C9_MetaTokens ==
    (MetaKeyRead /\ key[2] # NoInput) =>
        LET c == key[2]
        IN  /\ c = 0 => LastToken = <<67, 45, 77, 45, 32>>
            /\ (1 <= c /\ c <= 26) => LastToken = <<67, 45, 77, 45, 96 + c>>
            /\ c = 27 => LastToken = <<77, 45, 69, 83, 67>>
            /\ (28 <= c /\ c <= 31) => LastToken = <<67, 45, 77, 45, 64 + c>>
            /\ ((32 <= c /\ c <= 126) \/ (128 <= c /\ c <= 255))
                  => LastToken = <<77, 45, c>>
            /\ c = 127 => LastToken = <<77, 45, 68, 69, 76>>
            /\ c >= KEY_MIN => LastToken = <<77, 45>> \o ClassifiedToken(c)

\* 27 then 6 have been read and "C-M-f" appended
C9_Witness ==
    MetaKeyRead /\ key[2] = 6 /\ LastToken = <<67, 45, 77, 45, 102>>

\* C10: after 27 with no second code waiting the token appended is "ESC".
C10_LoneEscape ==
    (MetaKeyRead /\ key[2] = NoInput) => LastToken = <<69, 83, 67>>

\* the active buffer now, and before the latest command ran
ActiveNow == active_buff(ihmacs)
ActiveBefore == active_buff(ran.pre)

\* C11: a first raw code that no row of the classification names, a negative
\* one or one above 255 and below the first keypad code, makes read_key append
\* the token "ESC".
C11_StrayCodeReadsEscape ==
    (PlainKeyRead /\ (key[1] < 0 \/ (255 < key[1] /\ key[1] < KEY_MIN))) =>
        LastToken = <<69, 83, 67>>

\* code 256 has been read as a first code
C11_Witness == PlainKeyRead /\ key[1] = 256 /\ LastToken = <<69, 83, 67>>

\* ------------------------------------------- claims on the command loop
\* the tokens "C-x", "C-f" and "C-z"
TOKEN_C_x == <<67, 45, 120>>
TOKEN_C_f == <<67, 45, 102>>
TOKEN_C_z == <<67, 45, 122>>
\* the latest command was invoked by the dispatcher
Dispatched == ran.via = "dispatch"

\* C12: every dispatch outcome, a command invoked at a leaf or the undefined
\* fallback invoked where no transition exists, leaves the pending keychord
\* empty and the cursor at the root; no token is consumed before that.
C12_OutcomeResets ==
    [][/\ invoked' # invoked =>
            /\ keychord' = <<>>
            /\ cursor' = <<>>
            /\ Len(invoked') = Len(invoked) + 1
       /\ (TokenPending /\ Append(cursor, LastToken) = keychord
             /\ keychord \notin {SubSeq(p[1], 1, Len(keychord)) :
                    p \in {q \in KeymapPairs("create_buffer") :
                              Len(q[1]) > Len(keychord)}}) =>
            /\ invoked' # invoked
            /\ pc' = "A"
       /\ Len(keychord') > Len(keychord) => keychord = cursor]_vars

\* both outcomes have happened and the dispatcher is idle again
C12_Witness ==
    /\ Len(invoked) = 2
    /\ invoked[1] # "command_undefined"
    /\ invoked[2] = "command_undefined"
    /\ keychord = <<>>
    /\ cursor = <<>>

\* C13: from IDLE with the default keymap, the token "C-x" invokes no command
\* and leaves the dispatcher pending, and the token "C-f" after it invokes
\* create_buffer once and nothing else, the pending keychord being empty
\* afterwards.
C13_CxCfCreatesBuffer ==
    [][/\ (TokenPending /\ cursor = <<>> /\ keychord = <<TOKEN_C_x>>) =>
            /\ invoked' = invoked
            /\ ihmacs' = ihmacs
            /\ cursor' = <<TOKEN_C_x>>
            /\ keychord' = <<TOKEN_C_x>>
       /\ (TokenPending /\ cursor = <<TOKEN_C_x>>
             /\ keychord = <<TOKEN_C_x, TOKEN_C_f>>) =>
            /\ invoked' = Append(invoked, "create_buffer")
            /\ Len(ihmacs'.buffers) = Len(ihmacs.buffers) + 1
            /\ keychord' = <<>>]_vars

\* "C-x" then "C-f" have been typed in a new session
C13_Witness ==
    /\ Dispatched
    /\ ran.pre.keychord = <<TOKEN_C_x, TOKEN_C_f>>
    /\ invoked = <<"create_buffer">>
    /\ Len(ihmacs.buffers) = 2
    /\ keychord = <<>>

\* the text, point and mark of every buffer of a state
Contents(st) ==
    [i \in 1..Len(st.buffers) |->
        <<st.buffers[i].text, st.buffers[i].point, st.buffers[i].mark>>]

\* C14: when a token has no transition, the echo string becomes the tokens
\* typed since the last dispatch, the failing one included, joined by single
\* spaces and followed by " is undefined"; no buffer's text, point or mark
\* changes, and the pending keychord is reset to empty.
C14_UndefinedIsEchoed ==
    [][/\ (TokenPending /\ keychord \in {<<TOKEN_C_z>>, <<TOKEN_C_x, TOKEN_C_z>>}) =>
            invoked' = Append(invoked, "command_undefined")
       /\ invoked' = Append(invoked, "command_undefined") =>
            /\ Len(keychord) \in {1, 2}
            /\ ihmacs'.echo =
                   (IF Len(keychord) = 1 THEN keychord[1]
                    ELSE keychord[1] \o <<32>> \o keychord[2])
                   \o <<32, 105, 115, 32, 117, 110, 100, 101, 102, 105, 110, 101, 100>>
            /\ Contents(ihmacs') = Contents(ihmacs)
            /\ keychord' = <<>>]_vars

\* "C-x C-z is undefined", echoed over a buffer that holds text
C14_Witness ==
    /\ Dispatched
    /\ ran.func = "command_undefined"
    /\ ran.pre.keychord = <<TOKEN_C_x, TOKEN_C_z>>
    /\ ihmacs.echo = <<67, 45, 120, 32, 67, 45, 122, 32, 105, 115, 32, 117, 110,
                       100, 101, 102, 105, 110, 101, 100>>
    /\ ActiveNow.text # <<>>
    /\ keychord = <<>>

\* ------------------------------------------- claims on the commands
\* the index of the line offset p of text t is on, and p's column in it
LineOf(t, p) == Cardinality({i \in 1..p : t[i] = 10})
ColumnOf(t, p) ==
    LET breaks == {i \in 1..p : t[i] = 10}
    IN  p - (IF breaks = {} THEN 0 ELSE CHOOSE i \in breaks : \A j \in breaks : j <= i)
\* how many lines t has, where its k-th line starts and how long it is
LineCount(t) == LineOf(t, Len(t)) + 1
LineStart(t, k) == CHOOSE i \in 0..Len(t) : LineOf(t, i) = k /\ ColumnOf(t, i) = 0
LineLength(t, k) ==
    Cardinality({i \in 0..Len(t) : LineOf(t, i) = k}) - 1
\* the offsets at which a match of a delimiter pattern starts, and ends
MatchStarts(regex, t) ==
    {i \in 0..(Len(t) - 1) :
        /\ t[i + 1] \in regex.chars
        /\ regex.plus => (i = 0 \/ t[i] \notin regex.chars)}
MatchEnds(regex, t) ==
    {j \in 1..Len(t) :
        /\ t[j] \in regex.chars
        /\ regex.plus => (j = Len(t) \/ t[j + 1] \notin regex.chars)}
\* the n-th smallest and the n-th largest member of a set of offsets, or
\* the given value when it has fewer than n
NthSmallest(S, n, otherwise) ==
    IF Cardinality(S) < n THEN otherwise
    ELSE CHOOSE x \in S : Cardinality({y \in S : y < x}) = n - 1
NthLargest(S, n, otherwise) ==
    IF Cardinality(S) < n THEN otherwise
    ELSE CHOOSE x \in S : Cardinality({y \in S : y > x}) = n - 1
\* where n >= 1 units forward, and backward, of point p lead
ForwardTarget(regex, t, p, n) ==
    NthSmallest({i \in MatchStarts(regex, t) : i > p}, n, Len(t))
BackwardTarget(regex, t, p, n) ==
    NthLargest({j \in MatchEnds(regex, t) : j < p}, n, 0)

MovementCommands ==
    {"forward_by_delimiter", "backward_by_delimiter", "forward_word",
     "backward_word", "move_end_of_line", "move_beginning_of_line",
     "next_line", "previous_line"}

\* C15: the delimiter, word, line-boundary and vertical movement commands,
\* with any pattern and count, leave 0 <= point <= len(text) and change
\* neither text nor mark.
C15_MovementKeepsRange ==
    ran.func \in MovementCommands =>
        /\ 0 <= ActiveNow.point /\ ActiveNow.point <= Len(ActiveNow.text)
        /\ ActiveNow.text = ActiveBefore.text
        /\ ActiveNow.mark = ActiveBefore.mark

\* next_line has been asked to go beyond the last line, the mark being set
C15_Witness ==
    /\ ran.func = "next_line"
    /\ ran.num > 0
    /\ LineOf(ActiveBefore.text, ActiveBefore.point) + ran.num
           >= LineCount(ActiveBefore.text)
    /\ ActiveBefore.mark > 0
    /\ ActiveNow.point = Len(ActiveNow.text)

\* C16: forward_by_delimiter(pattern, n), n >= 1, sets point to the n-th
\* start, in text order, among the delimiter matches starting strictly after
\* the original point, or to len(text) when there are fewer than n.
C16_ForwardByDelimiter ==
    (ran.func = "forward_by_delimiter" /\ ran.num >= 1) =>
        ActiveNow.point =
            ForwardTarget(ran.regex, ActiveBefore.text, ActiveBefore.point, ran.num)

\* text "a a", point 1 on the space, whitespace delimiter, n = 1: point 3
C16_Witness ==
    /\ ran.func = "forward_by_delimiter"
    /\ ran.num = 1
    /\ ran.regex = ClassRegex({32, 10}, TRUE)
    /\ ActiveBefore.text = <<97, 32, 97>>
    /\ ActiveBefore.point = 1
    /\ ActiveNow.point = 3

\* C17: backward_by_delimiter(pattern, n), n >= 1, sets point to the
\* n-th-from-last end among the delimiter matches ending strictly before the
\* original point, or to 0 when there are fewer than n; a negative count in
\* either function has the effect of the other with the absolute count, and
\* count 0 changes nothing.
C17_BackwardByDelimiter ==
    ran.func \in {"forward_by_delimiter", "backward_by_delimiter"} =>
        LET t == ActiveBefore.text
            p == ActiveBefore.point
            n == ran.num
            back == ran.func = "backward_by_delimiter"
        IN  /\ (back /\ n >= 1) =>
                  ActiveNow.point = BackwardTarget(ran.regex, t, p, n)
            /\ (back /\ n < 0) =>
                  ActiveNow.point = ForwardTarget(ran.regex, t, p, 0 - n)
            /\ (~back /\ n < 0) =>
                  ActiveNow.point = BackwardTarget(ran.regex, t, p, 0 - n)
            /\ n = 0 => ihmacs = ran.pre
            /\ ihmacs = [ran.pre EXCEPT
                            !.buffers[ran.pre.active_buff_index + 1].point =
                                ActiveNow.point]

\* two units back, with two delimiter matches before point
C17_Witness ==
    /\ ran.func = "backward_by_delimiter"
    /\ ran.num = 2
    /\ ActiveNow.point > 0
    /\ ActiveNow.point < ActiveBefore.point

\* a command has gone through run_edit
ViaRunEdit == ran.via = "run_edit"
\* the rows of the terminal
TermLines == ihmacs.term_size[1]

\* C18: after run_edit(func), for any command and a terminal of at least 3
\* rows, point's line lies in display_line .. display_line + rows - 2, and
\* the re-validation has changed nothing but display_line.
C18_RunEditKeepsPointInView ==
    ViaRunEdit =>
        /\ ActiveNow.display_line <= LineOf(ActiveNow.text, ActiveNow.point)
        /\ LineOf(ActiveNow.text, ActiveNow.point)
               <= ActiveNow.display_line + TermLines - 2
        /\ ihmacs = [ran.mid EXCEPT
                        !.buffers[ran.mid.active_buff_index + 1].display_line =
                            ActiveNow.display_line]

\* the command left point above the view and the view has followed it
C18_Witness ==
    /\ ViaRunEdit
    /\ ran.func = "previous_line"
    /\ LineOf(active_buff(ran.mid).text, active_buff(ran.mid).point)
           < active_buff(ran.mid).display_line
    /\ ActiveNow.display_line < active_buff(ran.mid).display_line

\* scroll_up or scroll_down has been called directly
Scrolled == ran.via = "call" /\ ran.func \in {"scroll_up", "scroll_down"}
\* the display_line it asked for
ScrolledTo ==
    IF ran.func = "scroll_up" THEN ActiveBefore.display_line + ran.num
    ELSE ActiveBefore.display_line - ran.num

\* C19: after scroll_up(n) or scroll_down(n), display_line is the adjusted
\* one, and if point's line was outside display_line .. display_line + rows - 2
\* and the buffer has a line in that range, point is on the nearest line of
\* the range.
C19_ScrollMovesPointIntoView ==
    Scrolled =>
        LET lo == ScrolledTo
            hi == ScrolledTo + TermLines - 2
            was == LineOf(ActiveBefore.text, ActiveBefore.point)
            is == LineOf(ActiveNow.text, ActiveNow.point)
        IN  /\ ActiveNow.display_line = ScrolledTo
            /\ ((was < lo \/ was > hi) /\ lo < LineCount(ActiveBefore.text))
                  => is = (IF was < lo THEN lo ELSE hi)

CharacterCodes == (32..126) \cup (128..255)

\* C21: the one-character token of every raw code in 32..126 or 128..255 is
\* bound to self_insert_command, so its dispatch from IDLE never reaches the
\* undefined fallback.
C21_CharactersSelfInsert ==
    (Dispatched /\ Len(ran.pre.keychord) = 1 /\ Len(ran.pre.keychord[1]) = 1
       /\ ran.pre.keychord[1][1] \in CharacterCodes) =>
        ran.func = "self_insert_command"

\* C22: with k buffers and active index i, previous_buffer switches to i-1
\* when i > 0 and to k-1 when i = 0, and next_buffer to i+1 when i < k-1 and
\* to 0 when i = k-1.
C22_BufferCycle ==
    (ViaRunEdit /\ ran.func \in {"previous_buffer", "next_buffer"}) =>
        LET k == Len(ran.pre.buffers)
            i == ran.pre.active_buff_index
        IN  /\ Len(ihmacs.buffers) = k
            /\ ihmacs.active_buff_index =
                   IF ran.func = "previous_buffer"
                   THEN (IF i > 0 THEN i - 1 ELSE k - 1)
                   ELSE (IF i < k - 1 THEN i + 1 ELSE 0)

\* C23: every call of read_key reads at most two raw codes, appends exactly
\* one token to the keychord and returns with the window in blocking mode;
\* no-delay mode is entered only after a first code of 27.
C23_ReadKeyOneToken ==
    [][/\ pc' = "A" =>
            /\ Len(key') <= 2
            /\ Len(keychord') = Len(keychord) + 1
            /\ SubSeq(keychord', 1, Len(keychord)) = keychord
            /\ nodelay' = FALSE
       /\ pc' = "B" =>
            /\ pc = "A"
            /\ key' = <<27>>
            /\ keychord' = keychord
       /\ nodelay' => (pc' = "B" /\ key'[1] = 27)
       /\ pc' = "A" => (Len(key') = 2 <=> key'[1] = 27)]_vars

\* a meta pair has been read: two codes, one token, blocking mode again
C23_Witness ==
    /\ pc = "A"
    /\ Len(key) = 2
    /\ key[2] # NoInput
    /\ Len(keychord) = 1
    /\ ~nodelay

\* where the end and the beginning of point's line are
EndOfLine(t, p) ==
    LET breaks == {j \in p..(Len(t) - 1) : t[j + 1] = 10}
    IN  IF breaks = {} THEN Len(t)
        ELSE CHOOSE j \in breaks : \A i \in breaks : j <= i
BeginningOfLine(t, p) ==
    LET breaks == {j \in 1..p : t[j] = 10}
    IN  IF breaks = {} THEN 0
        ELSE CHOOSE j \in breaks : \A i \in breaks : i <= j

Registered == {p[1] : p \in KeymapPairs("create_buffer")}
\* s is a strict prefix of t
StrictPrefix(s, t) == Len(s) < Len(t) /\ SubSeq(t, 1, Len(s)) = s
\* no registered sequence is a strict prefix of another, or registered twice
PrefixFree ==
    /\ \A s \in Registered : \A t \in Registered : ~StrictPrefix(s, t)
    /\ Cardinality(Registered) = Cardinality(KeymapPairs("create_buffer"))

\* C25: in the default keymap no registered sequence is a strict prefix of,
\* or equal to, another; so no node is both leaf and interior, and typing any
\* registered sequence leads to the leaf of its command.
C25_KeymapUnambiguous ==
    /\ PrefixFree
    /\ TokenPending =>
          /\ \A p \in KeymapPairs("create_buffer") :
                keychord = p[1] => Stepped = Leaf(p[2])
          /\ (\E s \in Registered : StrictPrefix(keychord, s)) => Stepped = Interior

\* the two-token binding "C-x" "C-c" has been reached
C25_Witness ==
    /\ Dispatched
    /\ ran.pre.keychord = <<TOKEN_C_x, <<67, 45, 99>>>>
    /\ ran.func = "kill_ihmacs"
    /\ ihmacs.end_session

\* C26: a raw code c in 32..126 typed from IDLE is dispatched to
\* self_insert_command with the token chr(c) last in the keychord: chr(c) is
\* inserted at point, the text grows by that character and point advances
\* by 1.
C26_TypedCharacterInserted ==
    [][(TokenPending /\ cursor = <<>> /\ Len(key) = 1 /\ key[1] \in 32..126) =>
          LET b == active_buff(ihmacs)
              after == active_buff(ihmacs')
          IN  /\ keychord = <<(<<key[1]>>)>>
              /\ invoked' = Append(invoked, "self_insert_command")
              /\ after.text = SubSeq(b.text, 1, b.point) \o <<key[1]>>
                                \o SubSeq(b.text, b.point + 1, Len(b.text))
              /\ after.point = b.point + 1
              /\ ihmacs'.active_buff_index = ihmacs.active_buff_index]_vars

\* "a" has been typed before the end of a text
C26_Witness ==
    /\ Dispatched
    /\ ran.func = "self_insert_command"
    /\ ran.pre.keychord = <<(<<97>>)>>
    /\ ActiveBefore.point < Len(ActiveBefore.text)
    /\ ActiveNow.point = ActiveBefore.point + 1
    /\ Len(ActiveNow.text) = Len(ActiveBefore.text) + 1

====
